---- MODULE Spec2Model ----
(***************************************************************************)
(* wardarr, scripts/clip-matcher.py: one invocation of main(), which calls *)
(* process_media_file() and exits with a status derived from its result.   *)
(*                                                                         *)
(* Similarities and thresholds are integers in hundredths (0.79 is 79).    *)
(* Python's None is 0 for a frame number or a still number and "None" for  *)
(* a string.  Frame k stands for the path frames_dir/frame-000k.jpg.       *)
(* Answers of the outside world (providers, ffmpeg, image decoding, the    *)
(* similarity of a frame) are drawn where the code reads them.  A call of  *)
(* create_comparison_image is recorded as made; shutil.rmtree and          *)
(* os.remove of the cleanup are taken to succeed.                          *)
(***************************************************************************)
EXTENDS Integers, Sequences, FiniteSets, TLC

\* ---------------------------------------------------------------- bounds
MaxFrames == 2
MaxTmdbStills == 2

\* ------------------------------------------------------ program constants
EARLY_STOP_THRESHOLD == 79

\* --------------------------------------- lines 718-724: threshold clamping
\* A value of --threshold is k thousandths, the double nearest to k/1000.
\* smallest j >= 0 with a * 2^j >= 1000: the double of a/1000, 0 < a <= 1000,
\* has the binary exponent -j
RECURSIVE ShiftFrom(_, _)
ShiftFrom(a, j) == IF a >= 1000 THEN j ELSE ShiftFrom(2 * a, j + 1)
Shift(a) == ShiftFrom(a, 0)

\* floor(log2(n)), n >= 1
RECURSIVE Log2Floor(_)
Log2Floor(n) == IF n < 2 THEN 0 ELSE 1 + Log2Floor(n \div 2)

RECURSIVE Pow2(_)
Pow2(e) == IF e = 0 THEN 1 ELSE 2 * Pow2(e - 1)

\* 2^s mod 1000
RECURSIVE PowMod(_)
PowMod(s) == IF s = 0 THEN 1 ELSE (2 * PowMod(s - 1)) % 1000

\* 1000 * 2^(52+j) times the rounding error of the double nearest to a/1000
\* (53-bit significand, round to nearest; a tie cannot occur)
ParseError(a) ==
    LET r == (a * PowMod(52 + Shift(a))) % 1000
    IN  IF r = 0 THEN 0 ELSE IF r > 500 THEN 1000 - r ELSE -r

\* exact floor, for comparison: floor(k / 10)
ExactFloor100(k) == k \div 10

\* math.floor(args.early_stop * 100) in IEEE double arithmetic.  The product
\* of the double of a/1000 by 100 is a/10 + d / (10 * 2^(52+j)); when a/10
\* is an integer n the product rounds to a neighbour of n as soon as the
\* error exceeds half the spacing of the doubles on that side of n.
Floor100(k) ==
    IF k = 0 THEN 0
    ELSE LET a == IF k > 0 THEN k ELSE -k IN
         IF a % 10 # 0
         THEN k \div 10
         ELSE LET n == a \div 10
                  d == ParseError(a)
                  half == 5 * Pow2(Log2Floor(n) + Shift(a))
                  below == IF Pow2(Log2Floor(n)) = n THEN half \div 2 ELSE half
              IN  IF k > 0
                  THEN (IF d < 0 /\ -d > below THEN n - 1 ELSE n)
                  ELSE (IF d > 0 /\ d > half THEN -(n + 1) ELSE -n)

\* lines 720-722: bumped, in thousandths
Bumped(k) ==
    LET bumped == (Floor100(k) + 1) * 10
    IN  IF bumped > 10 * EARLY_STOP_THRESHOLD THEN 10 * EARLY_STOP_THRESHOLD ELSE bumped

\* lines 719-724: args.early_stop after the clamping
Clamp(k) == IF k < 10 * EARLY_STOP_THRESHOLD THEN Bumped(k) ELSE k

\* line 83: the validity window, 30 * 24 * 3600 seconds, in days
TokenLifetimeDays == 30
\* the clock runs up to MaxClock days; the login endpoint issues up to
\* MaxLogins tokens
MaxClock == 64
MaxLogins == 3

\* line 214: the internal id used when no search finds the show
SentinelId == 12345

\* ------------------------------------------------------------ input sets
\* values of --threshold in [-1, 1] with up to three decimals
SuppliedArgs == -1000..1000
\* the values of --threshold the pipeline is explored with: -0.5 and the default
ThresholdArgs == {-500, 10 * EARLY_STOP_THRESHOLD}
\* early_stop_threshold values main() passes for them, in hundredths
Thresholds == {Clamp(t) \div 10 : t \in ThresholdArgs}
\* cosine similarities a frame can score
Sims == {-10, 50, 79}
\* --max-stills is any int
MaxStillsArgs == {-1, 0, 1, 20}
\* --force-still: absent, or a path
ForcedPath == "forced.jpg"
ForceArgs == {"None", ForcedPath}

VARIABLES
    pc,                      \* position of the invocation
    OMDB_API_KEY,            \* TRUE when the environment variable is set
    TVDB_API_KEY,
    tvdbId,                  \* TRUE when the filename carries a [tvdbid-..] or [imdb-..] tag
    unreachable,             \* providers whose still request fails in this run
    tvdb_token,              \* what get_tvdb_token meets in this run
    tmdb_search,             \* which name search of provider C finds the show
    unrenderable,            \* comparison images whose rendering fails in this run
    media_path,              \* the media path of the command line
    tmdbId,                  \* file_info['tmdbId'], 0 before parse_filename
    tvdb_token_cache,        \* rows of the table, each a token and a timestamp in days
    clock,                   \* time.time(), in days
    logins,                  \* tokens the login endpoint has issued
    call,                    \* the last call of get_tvdb_token
    procs,                   \* two concurrent invocations inside get_tvdb_token
    writer,                  \* the invocation holding the database write lock, 0 if none
    max_stills, strict_mode, early_stop_threshold, force_still_path,
    supplied,                \* --threshold as parsed by argparse, in thousandths
    early_stop,              \* args.early_stop, in thousandths
    clamped,                 \* lines 718-724 of main have run
    stills_to_process_list,  \* sequence of [file_path, source]
    stills_to_process,
    local_media_path,        \* "unset", "temp" (the TEMP_DIR copy) or the value of media_path
    frame_paths,             \* sequence of frame numbers
    still_index,             \* enumerate() index, 0-based
    frame_pos,               \* frames of the current still already handled
    scores,                  \* <<frame, similarity>> of the frames scored for the current still
    still_max_similarity, still_best_match,
    still_matches,           \* sequence of [still_index, max_similarity, best_match]
    max_similarity, best_match_frame, best_match_still, best_match_source,
    is_match,                \* the local is_match of process_media_file
    result,                  \* value process_media_file returned
    exit_path,               \* which return statement ended process_media_file
    exit_code,               \* status passed to sys.exit, -1 while running
    stdout,                  \* the "Match:" line printed at line 645, "none" before
    localCopy,               \* the file TEMP_DIR/safe_dirname.ext exists
    mediaFile,               \* the file at the user-supplied media path exists
    framesDir,               \* the directory TEMP_DIR/safe_dirname_frames exists
    frameFiles,              \* frame numbers present in that directory
    staleCopy,               \* the local copy was written by an earlier invocation
    staleFrames,             \* frame files that are not this invocation's extraction
                             \* from this invocation's video
    lookups,                 \* requests sent to the providers while gathering
    provided,                \* what each provider function returned ([] when not called)
    failed,                  \* providers with a failed request
    visited,                 \* still numbers the still loop has started on
    downloaded,              \* still numbers handed to download_image
    embedded,                \* still numbers whose embedding was computed
    scoredStills,            \* still numbers with at least one frame scored
    reached,                 \* still numbers with a scored similarity >= threshold
    artifacts,               \* create_comparison_image calls: still numbers, 0 for best_match.jpg
    rendered                 \* the calls among them that saved their image

args == <<max_stills, strict_mode, early_stop_threshold, force_still_path,
          supplied, early_stop, clamped>>
config == <<OMDB_API_KEY, TVDB_API_KEY, tvdbId, unreachable, tvdb_token, tmdb_search,
            unrenderable, media_path>>
tokens == <<tvdb_token_cache, clock, logins, call>>
racers == <<procs, writer>>
keys == <<config, tmdbId, tokens, racers>>
cands == <<stills_to_process_list, stills_to_process>>
perStill == <<still_max_similarity, still_best_match, frame_pos, scores>>
globalBest == <<max_similarity, best_match_frame, best_match_still, best_match_source>>
fs == <<localCopy, mediaFile, framesDir, frameFiles, staleCopy, staleFrames>>
broker == <<lookups, provided, failed>>
history == <<visited, downloaded, embedded, scoredStills, reached, artifacts, rendered>>
vars == <<pc, keys, args, cands, local_media_path, frame_paths, still_index, perStill,
          still_matches, globalBest, is_match, result, exit_path, exit_code, stdout, fs,
          broker, history>>

\* ---------------------------------------------------------------- helpers
Min(a, b) == IF a <= b THEN a ELSE b
Max(a, b) == IF a >= b THEN a ELSE b

\* Python's seq[:n]
Slice(seq, n) ==
    IF n >= 0 THEN SubSeq(seq, 1, Min(n, Len(seq)))
    ELSE SubSeq(seq, 1, Max(Len(seq) + n, 0))

\* the stills the for loop enumerates
StillsIterated == Slice(stills_to_process_list, stills_to_process)

Tagged(images, src) == [i \in 1..Len(images) |-> [file_path |-> images[i], source |-> src]]

\* results a provider function can return; <<>> stands for None
OmdbResults == {<<>>, <<"omdb1">>}
TvdbResults == {<<>>, <<"tvdb1">>}
TmdbAscending(n) == [i \in 1..n |-> IF i = 1 THEN "tmdb1" ELSE IF i = 2 THEN "tmdb2" ELSE "tmdb3"]
TmdbDescending(n) == [i \in 1..n |-> TmdbAscending(n)[n + 1 - i]]
TmdbResults == UNION {{TmdbAscending(n), TmdbDescending(n)} : n \in 0..MaxTmdbStills}
\* a 'stills' array whose one entry has no file_path
TmdbMalformed == <<"None">>
Providers == {"omdb", "tvdb", "tmdb"}
\* what get_tvdb_token meets: a valid cached token, a login that yields a
\* token, or a login that yields none
TokenStates == {"cached", "login", "denied"}
\* comparison images that may fail: best_match.jpg (0) and still_1_match.jpg
Renderings == {0, 1}
\* lines 203-214: the show is found by its name, by its simplified name, or
\* by neither
TmdbSearches == {"primary", "simplified", "none"}
\* ids search_tmdb_for_show can return
SeriesIds == {SentinelId + 1}

\* two invocations of the script that run at the same time
Invocations == {1, 2}
\* an invocation about to call get_tvdb_token: its position, the row it
\* read, the token of its login, the rows of its open transaction and the
\* value it returned
Entering == [at |-> "select", row |-> <<>>, tok |-> 0, txn |-> <<>>, returned |-> 0]

\* no call of get_tvdb_token yet
NoCall == [now |-> 0, row |-> <<>>, posted |-> FALSE, issued |-> 0, returned |-> 0, done |-> 0]

\* ------------------------------------------------------------------ Init
\* the locals before the first statement, and a clean scratch directory
FreshRun ==
    /\ pc = "start"
    /\ stills_to_process_list = <<>>
    /\ stills_to_process = 0
    /\ local_media_path = "unset"
    /\ frame_paths = <<>>
    /\ still_index = 0
    /\ frame_pos = 0
    /\ scores = {}
    /\ still_max_similarity = 0
    /\ still_best_match = 0
    /\ still_matches = <<>>
    /\ max_similarity = 0
    /\ best_match_frame = 0
    /\ best_match_still = 0
    /\ best_match_source = "None"
    /\ is_match = FALSE
    /\ result = FALSE
    /\ exit_path = "running"
    /\ exit_code = -1
    /\ stdout = "none"
    /\ lookups = {}
    /\ provided = [omdb |-> <<>>, tvdb |-> <<>>, tmdb |-> <<>>]
    /\ failed = {}
    /\ tmdbId = 0
    /\ call = NoCall
    /\ procs = [p \in Invocations |-> Entering]
    /\ writer = 0
    /\ visited = {}
    /\ downloaded = {}
    /\ embedded = {}
    /\ scoredStills = {}
    /\ reached = {}
    /\ artifacts = {}
    /\ rendered = {}

\* line 72: the token table as CREATE TABLE leaves it, on the first day
EmptyCache ==
    /\ tvdb_token_cache = <<>>
    /\ clock = 1
    /\ logins = 0

\* media paths: a file outside TEMP_DIR, the very string that line 488 builds
\* for the local copy, and another spelling of that file's path
MediaPaths == {"media", "temp", "./temp"}
\* the path names the file of the local copy
InScratch(path) == path \in {"temp", "./temp"}

\* a scratch directory without leftovers and a video outside of it
CleanScratch ==
    /\ media_path = "media"
    /\ mediaFile = TRUE
    /\ localCopy = FALSE
    /\ framesDir = FALSE
    /\ frameFiles = {}
    /\ staleCopy = FALSE
    /\ staleFrames = {}

Fresh == FreshRun /\ EmptyCache /\ CleanScratch

\* every provider configured and the series id given in the filename; every
\* combination of the command-line arguments
Init ==
    /\ Fresh
    /\ OMDB_API_KEY = TRUE
    /\ TVDB_API_KEY = TRUE
    /\ tvdbId = TRUE
    /\ unreachable = {}
    /\ tvdb_token = "cached"
    /\ tmdb_search = "primary"
    /\ unrenderable = {}
    /\ max_stills \in MaxStillsArgs
    /\ strict_mode \in BOOLEAN
    /\ early_stop_threshold \in Thresholds
    /\ supplied \in {t \in ThresholdArgs : Clamp(t) = 10 * early_stop_threshold}
    /\ early_stop = Clamp(supplied)
    /\ clamped = TRUE
    /\ force_still_path \in ForceArgs

\* every combination of keys and filename tag, the default threshold and mode
InitBroker ==
    /\ Fresh
    /\ OMDB_API_KEY \in BOOLEAN
    /\ TVDB_API_KEY \in BOOLEAN
    /\ tvdbId \in BOOLEAN
    /\ unreachable = {}
    /\ tvdb_token = "cached"
    /\ tmdb_search = "primary"
    /\ unrenderable = {}
    /\ max_stills \in MaxStillsArgs
    /\ strict_mode = FALSE
    /\ early_stop_threshold = EARLY_STOP_THRESHOLD
    /\ supplied = 10 * EARLY_STOP_THRESHOLD
    /\ early_stop = Clamp(supplied)
    /\ clamped = TRUE
    /\ force_still_path \in ForceArgs

\* every combination of keys and filename tag with at most one provider
\* failing and every state of the token cache; default arguments, with and
\* without a forced still
InitFaults ==
    /\ Fresh
    /\ OMDB_API_KEY \in BOOLEAN
    /\ TVDB_API_KEY \in BOOLEAN
    /\ tvdbId \in BOOLEAN
    /\ unreachable \in {{}} \cup {{p} : p \in Providers}
    /\ tvdb_token \in TokenStates
    /\ tmdb_search \in TmdbSearches
    /\ unrenderable = {}
    /\ max_stills = 20
    /\ strict_mode = FALSE
    /\ early_stop_threshold = EARLY_STOP_THRESHOLD
    /\ supplied = 10 * EARLY_STOP_THRESHOLD
    /\ early_stop = Clamp(supplied)
    /\ clamped = TRUE
    /\ force_still_path \in ForceArgs

\* every provider configured, default arguments with and without a forced
\* still, and any of the comparison images failing to render
InitRender ==
    /\ Fresh
    /\ OMDB_API_KEY = TRUE
    /\ TVDB_API_KEY = TRUE
    /\ tvdbId = TRUE
    /\ unreachable = {}
    /\ tvdb_token = "cached"
    /\ tmdb_search = "primary"
    /\ unrenderable \in SUBSET Renderings
    /\ max_stills = 20
    /\ strict_mode = FALSE
    /\ early_stop_threshold = EARLY_STOP_THRESHOLD
    /\ supplied = 10 * EARLY_STOP_THRESHOLD
    /\ early_stop = Clamp(supplied)
    /\ clamped = TRUE
    /\ force_still_path \in ForceArgs

\* a fresh token table and repeated calls of get_tvdb_token
InitToken ==
    /\ Fresh
    /\ OMDB_API_KEY = TRUE
    /\ TVDB_API_KEY = TRUE
    /\ tvdbId = TRUE
    /\ unreachable = {}
    /\ tvdb_token = "cached"
    /\ tmdb_search = "primary"
    /\ unrenderable = {}
    /\ max_stills = 20
    /\ strict_mode = FALSE
    /\ early_stop_threshold = EARLY_STOP_THRESHOLD
    /\ supplied = 10 * EARLY_STOP_THRESHOLD
    /\ early_stop = Clamp(supplied)
    /\ clamped = TRUE
    /\ force_still_path = "None"

\* two invocations enter get_tvdb_token while the table is empty or holds a
\* pair that has just expired
InitRace ==
    /\ FreshRun
    /\ CleanScratch
    /\ OMDB_API_KEY = TRUE
    /\ TVDB_API_KEY = TRUE
    /\ tvdbId = TRUE
    /\ unreachable = {}
    /\ tvdb_token = "cached"
    /\ tmdb_search = "primary"
    /\ unrenderable = {}
    /\ max_stills = 20
    /\ strict_mode = FALSE
    /\ early_stop_threshold = EARLY_STOP_THRESHOLD
    /\ supplied = 10 * EARLY_STOP_THRESHOLD
    /\ early_stop = Clamp(supplied)
    /\ clamped = TRUE
    /\ force_still_path = "None"
    /\ clock = 1 + TokenLifetimeDays
    /\ \/ tvdb_token_cache = <<>> /\ logins = 0
       \/ tvdb_token_cache = <<[token |-> 1, timestamp |-> 1]>> /\ logins = 1

\* every spelling of the media path; a video that lies in TEMP_DIR under the
\* name of the local copy is the file at that path
InitScratch ==
    /\ FreshRun
    /\ EmptyCache
    /\ media_path \in MediaPaths
    /\ mediaFile = TRUE
    /\ localCopy = InScratch(media_path)
    /\ framesDir = FALSE
    /\ frameFiles = {}
    /\ staleCopy = FALSE
    /\ staleFrames = {}
    /\ OMDB_API_KEY = TRUE
    /\ TVDB_API_KEY = TRUE
    /\ tvdbId = TRUE
    /\ unreachable = {}
    /\ tvdb_token = "cached"
    /\ tmdb_search = "primary"
    /\ unrenderable = {}
    /\ max_stills = 20
    /\ strict_mode = FALSE
    /\ early_stop_threshold = EARLY_STOP_THRESHOLD
    /\ supplied = 10 * EARLY_STOP_THRESHOLD
    /\ early_stop = Clamp(supplied)
    /\ clamped = TRUE
    /\ force_still_path \in ForceArgs

\* main before the clamping, for every supplied threshold
InitClamp ==
    /\ Fresh
    /\ OMDB_API_KEY = TRUE
    /\ TVDB_API_KEY = TRUE
    /\ tvdbId = TRUE
    /\ unreachable = {}
    /\ tvdb_token = "cached"
    /\ tmdb_search = "primary"
    /\ unrenderable = {}
    /\ max_stills = 20
    /\ strict_mode = FALSE
    /\ force_still_path = "None"
    /\ supplied \in SuppliedArgs
    /\ early_stop = supplied
    /\ clamped = FALSE
    /\ early_stop_threshold = EARLY_STOP_THRESHOLD

\* lines 718-724
ClampThreshold ==
    /\ ~clamped
    /\ early_stop' = Clamp(early_stop)
    /\ clamped' = TRUE
    /\ UNCHANGED <<pc, keys, max_stills, strict_mode, early_stop_threshold, force_still_path,
                   supplied, cands, local_media_path, frame_paths, still_index, perStill,
                   still_matches, globalBest, is_match, result, exit_path, exit_code, stdout, fs,
                   broker, history>>

\* a return statement of process_media_file
Return(value, path) ==
    /\ pc' = "returned"
    /\ result' = value
    /\ exit_path' = path

\* the except clause of process_media_file: every exception raised in its body
Except == Return(FALSE, "exception")

\* ------------------------------------------------- lines 423-448: parsing
ParseFails ==
    /\ pc = "start"
    /\ Return(FALSE, "parse")
    /\ UNCHANGED <<keys, args, cands, local_media_path, frame_paths, still_index, perStill,
                   still_matches, globalBest, is_match, exit_code, stdout, fs, broker, history>>

VerifyDirRaises ==
    /\ pc = "start"
    /\ Except
    /\ UNCHANGED <<keys, args, cands, local_media_path, frame_paths, still_index, perStill,
                   still_matches, globalBest, is_match, exit_code, stdout, fs, broker, history>>

\* lines 203-214: the id found by a search, else the internal id
TmdbId(found) == IF tmdb_search = "none" THEN SentinelId ELSE found

Parsed ==
    /\ pc = "start"
    /\ \E found \in SeriesIds : tmdbId' = TmdbId(found)
    /\ pc' = "gather"
    /\ UNCHANGED <<config, tokens, racers, args, cands, local_media_path, frame_paths, still_index, perStill,
                   still_matches, globalBest, is_match, result, exit_path, exit_code, stdout, fs, broker,
                   history>>

\* ------------------------------------- lines 450-481: gathering the stills
\* the forced still is ignored
ForceStillIgnored == FALSE

\* the test of line 452
ForceStill == force_still_path # "None"

GatherForcedMissing ==
    /\ pc = "gather"
    /\ ForceStill
    /\ Return(FALSE, "force_missing")
    /\ UNCHANGED <<keys, args, cands, local_media_path, frame_paths, still_index, perStill,
                   still_matches, globalBest, is_match, exit_code, stdout, fs, broker, history>>

ForcedList == <<[file_path |-> force_still_path, source |-> "forced"]>>

GatherForced ==
    /\ pc = "gather"
    /\ ForceStill
    /\ stills_to_process_list' = ForcedList
    /\ stills_to_process' = Min(Len(ForcedList), max_stills)
    /\ pc' = "copy"
    /\ UNCHANGED <<keys, args, local_media_path, frame_paths, still_index, perStill,
                   still_matches, globalBest, is_match, result, exit_path, exit_code, stdout, fs, broker,
                   history>>

\* the list built from the three providers' answers
ProviderList(omdb_images, tvdb_images, stills) ==
    Tagged(omdb_images, "OMDB") \o Tagged(tvdb_images, "TVDB") \o Tagged(stills, "TMDB")

\* line 477: if not stills_to_process_list
NoStillsNever(list) == FALSE

NoStills(list) == list = <<>>

\* The requests of lines 457-476.  Each provider function catches its own
\* exceptions and returns None, modelled as <<>>; a provider in unreachable
\* fails every still request (network error, HTTP error, undecodable body).
\* get_tvdb_token finds a valid cached token or posts a login, which yields a
\* token or is denied; a token obtained by the search is cached for the still
\* lookup.
GatherProviders ==
    /\ pc = "gather"
    /\ ~ForceStill
    /\ \E omdb_answer \in OmdbResults, search_found \in BOOLEAN,
          tvdb_answer \in TvdbResults, tmdb_answer \in TmdbResults :
        LET omdb_called == OMDB_API_KEY
            omdb_images == IF omdb_called /\ "omdb" \notin unreachable
                           THEN omdb_answer ELSE <<>>
            search_called == ~tvdbId
            token == tvdb_token # "denied"
            tvdb_series_id == tvdbId \/ (token /\ search_found)
            tvdb_called == tvdb_series_id /\ TVDB_API_KEY
            tvdb_images == IF tvdb_called /\ token /\ "tvdb" \notin unreachable
                           THEN tvdb_answer ELSE <<>>
            stills == IF "tmdb" \notin unreachable THEN tmdb_answer ELSE <<>>
            list == ProviderList(omdb_images, tvdb_images, stills)
        IN  /\ lookups' = (IF omdb_called THEN {"omdb_images"} ELSE {})
                          \cup (IF (search_called \/ tvdb_called) /\ tvdb_token # "cached"
                                THEN {"tvdb_login"} ELSE {})
                          \cup (IF search_called /\ token THEN {"tvdb_search"} ELSE {})
                          \cup (IF tvdb_called /\ token THEN {"tvdb_images"} ELSE {})
                          \cup {"tmdb_images"}
            /\ failed' = (IF omdb_called /\ "omdb" \in unreachable THEN {"omdb"} ELSE {})
                         \cup (IF \/ (search_called \/ tvdb_called) /\ ~token
                                  \/ tvdb_called /\ "tvdb" \in unreachable
                               THEN {"tvdb"} ELSE {})
                         \cup (IF "tmdb" \in unreachable THEN {"tmdb"} ELSE {})
            /\ provided' = [omdb |-> omdb_images, tvdb |-> tvdb_images, tmdb |-> stills]
            /\ stills_to_process_list' = list
            /\ IF NoStills(list)
               THEN /\ Return(FALSE, "no_stills")
                    /\ UNCHANGED stills_to_process
               ELSE /\ stills_to_process' = Min(Len(list), max_stills)
                    /\ pc' = "copy"
                    /\ UNCHANGED <<result, exit_path>>
    /\ UNCHANGED <<keys, args, local_media_path, frame_paths, still_index, perStill,
                   still_matches, globalBest, is_match, exit_code, stdout, fs, history>>

\* Provider C answers 200 with stills that carry no file_path: get_episode_images
\* returns the data and the comprehension of line 476 raises KeyError, outside
\* any provider's try, into the except clause of line 677.
GatherRaises ==
    /\ pc = "gather"
    /\ ~ForceStill
    /\ "tmdb" \notin unreachable
    /\ \E omdb_answer \in OmdbResults, search_found \in BOOLEAN,
          tvdb_answer \in TvdbResults :
        LET omdb_called == OMDB_API_KEY
            omdb_images == IF omdb_called /\ "omdb" \notin unreachable
                           THEN omdb_answer ELSE <<>>
            search_called == ~tvdbId
            token == tvdb_token # "denied"
            tvdb_series_id == tvdbId \/ (token /\ search_found)
            tvdb_called == tvdb_series_id /\ TVDB_API_KEY
            tvdb_images == IF tvdb_called /\ token /\ "tvdb" \notin unreachable
                           THEN tvdb_answer ELSE <<>>
        IN  /\ lookups' = (IF omdb_called THEN {"omdb_images"} ELSE {})
                          \cup (IF (search_called \/ tvdb_called) /\ tvdb_token # "cached"
                                THEN {"tvdb_login"} ELSE {})
                          \cup (IF search_called /\ token THEN {"tvdb_search"} ELSE {})
                          \cup (IF tvdb_called /\ token THEN {"tvdb_images"} ELSE {})
                          \cup {"tmdb_images"}
            /\ failed' = (IF omdb_called /\ "omdb" \in unreachable THEN {"omdb"} ELSE {})
                         \cup (IF \/ (search_called \/ tvdb_called) /\ ~token
                                  \/ tvdb_called /\ "tvdb" \in unreachable
                               THEN {"tvdb"} ELSE {})
                         \cup {"tmdb"}
            /\ provided' = [omdb |-> omdb_images, tvdb |-> tvdb_images, tmdb |-> TmdbMalformed]
            /\ stills_to_process_list' = Tagged(omdb_images, "OMDB") \o Tagged(tvdb_images, "TVDB")
    /\ Except
    /\ UNCHANGED <<keys, args, stills_to_process, local_media_path, frame_paths, still_index,
                   perStill, still_matches, globalBest, is_match, exit_code, stdout, fs,
                   history>>

\* ----------------------------------- lines 486-498: local copy of the media
CopyMedia ==
    /\ pc = "copy"
    /\ IF localCopy
       THEN /\ local_media_path' = "temp"
            /\ UNCHANGED <<localCopy, staleCopy>>
       ELSE \E copied \in BOOLEAN :
            /\ copied => (mediaFile /\ ~InScratch(media_path))
            /\ localCopy' = copied
            /\ staleCopy' = FALSE
            /\ local_media_path' = IF copied THEN "temp" ELSE media_path
    /\ pc' = "extract"
    /\ UNCHANGED <<keys, args, cands, frame_paths, still_index, perStill, still_matches,
                   globalBest, is_match, result, exit_path, exit_code, stdout, mediaFile,
                   framesDir, frameFiles, staleFrames, broker, history>>

\* ------------------------------ lines 499-505 and 308-344: extract_frames
RECURSIVE Sorted(_)
Sorted(S) ==
    IF S = {} THEN <<>>
    ELSE LET m == CHOOSE x \in S : \A y \in S : x <= y
         IN  <<m>> \o Sorted(S \ {m})

\* the video is missing or ffmpeg exits non-zero: the exception is caught in
\* extract_frames, which returns []
ExtractFails ==
    /\ pc = "extract"
    /\ framesDir' = TRUE
    /\ frame_paths' = <<>>
    /\ Return(FALSE, "no_frames")
    /\ UNCHANGED <<keys, args, cands, local_media_path, still_index, perStill, still_matches,
                   globalBest, is_match, exit_code, stdout, localCopy, mediaFile, frameFiles,
                   staleCopy, staleFrames, broker, history>>

\* line 500: ffmpeg reads local_media_path, which is a leftover when the copy
\* step found the local copy "already cached" from an earlier invocation
FromStale(path, stale) == path = "temp" /\ stale

\* line 322: ffmpeg -y overwrites the files it writes and leaves the others
Written(stale, written, fromStale) ==
    IF fromStale THEN stale \cup written ELSE stale \ written

\* ffmpeg writes frame-0001 .. frame-000n and the directory is listed, sorted
ExtractFrames ==
    /\ pc = "extract"
    /\ \E n \in 0..MaxFrames :
        /\ framesDir' = TRUE
        /\ frameFiles' = frameFiles \cup 1..n
        /\ staleFrames' = Written(staleFrames, 1..n, FromStale(local_media_path, staleCopy))
        /\ frame_paths' = Sorted(frameFiles')
        /\ IF Len(frame_paths') = 0
           THEN Return(FALSE, "no_frames")
           ELSE /\ pc' = "load"
                /\ UNCHANGED <<result, exit_path>>
    /\ UNCHANGED <<keys, args, cands, local_media_path, still_index, perStill, still_matches,
                   globalBest, is_match, exit_code, stdout, localCopy, mediaFile, staleCopy,
                   broker, history>>

\* ------------------------------------------- lines 507-519: loading the model
LoadModel ==
    /\ pc = "load"
    /\ pc' = "loop"
    /\ max_similarity' = 0
    /\ best_match_frame' = 0
    /\ best_match_still' = 0
    /\ best_match_source' = "None"
    /\ UNCHANGED <<keys, args, cands, local_media_path, frame_paths, still_index, perStill,
                   still_matches, is_match, result, exit_path, exit_code, stdout, fs, broker, history>>

LoadModelRaises ==
    /\ pc = "load"
    /\ Except
    /\ UNCHANGED <<keys, args, cands, local_media_path, frame_paths, still_index, perStill,
                   still_matches, globalBest, is_match, exit_code, stdout, fs, broker, history>>

\* ------------------------------------------------ lines 521-556: one still
\* Every candidate carries one of the four known sources, so the "Unknown
\* still source" branch of lines 534-536 is never taken.
StillNumber == still_index + 1
CurrentStill == StillsIterated[StillNumber]
NeedsDownload == CurrentStill.source # "forced"

\* the for loop is exhausted
StillsExhausted ==
    /\ pc = "loop"
    /\ still_index >= Len(StillsIterated)
    /\ pc' = "decide"
    /\ UNCHANGED <<keys, args, cands, local_media_path, frame_paths, still_index, perStill,
                   still_matches, globalBest, is_match, result, exit_path, exit_code, stdout, fs,
                   broker, history>>

\* download_image returns None: continue
StillDownloadFails ==
    /\ pc = "loop"
    /\ still_index < Len(StillsIterated)
    /\ NeedsDownload
    /\ visited' = visited \cup {StillNumber}
    /\ downloaded' = downloaded \cup {StillNumber}
    /\ still_index' = still_index + 1
    /\ UNCHANGED <<pc, keys, args, cands, local_media_path, frame_paths, perStill,
                   still_matches, globalBest, is_match, result, exit_path, exit_code, stdout, fs,
                   broker, embedded, scoredStills, reached, artifacts, rendered>>

\* Image.open raises: continue
StillOpenFails ==
    /\ pc = "loop"
    /\ still_index < Len(StillsIterated)
    /\ visited' = visited \cup {StillNumber}
    /\ downloaded' = IF NeedsDownload THEN downloaded \cup {StillNumber} ELSE downloaded
    /\ still_index' = still_index + 1
    /\ UNCHANGED <<pc, keys, args, cands, local_media_path, frame_paths, perStill,
                   still_matches, globalBest, is_match, result, exit_path, exit_code, stdout, fs,
                   broker, embedded, scoredStills, reached, artifacts, rendered>>

\* the processor or the model raises on the still (lines 551-556, outside any
\* inner try)
StillEmbedRaises ==
    /\ pc = "loop"
    /\ still_index < Len(StillsIterated)
    /\ visited' = visited \cup {StillNumber}
    /\ downloaded' = IF NeedsDownload THEN downloaded \cup {StillNumber} ELSE downloaded
    /\ Except
    /\ UNCHANGED <<keys, args, cands, local_media_path, frame_paths, still_index, perStill,
                   still_matches, globalBest, is_match, exit_code, stdout, fs, broker, embedded,
                   scoredStills, reached, artifacts, rendered>>

StillEmbedded ==
    /\ pc = "loop"
    /\ still_index < Len(StillsIterated)
    /\ visited' = visited \cup {StillNumber}
    /\ downloaded' = IF NeedsDownload THEN downloaded \cup {StillNumber} ELSE downloaded
    /\ embedded' = embedded \cup {StillNumber}
    /\ still_max_similarity' = 0
    /\ still_best_match' = 0
    /\ frame_pos' = 0
    /\ scores' = {}
    /\ pc' = "frames"
    /\ UNCHANGED <<keys, args, cands, local_media_path, frame_paths, still_index,
                   still_matches, globalBest, is_match, result, exit_path, exit_code, stdout, fs,
                   broker, scoredStills, reached, artifacts, rendered>>

\* ------------------------------- lines 558-597 and 353-369: scoring frames
\* > replaced by >=
BetterOrEqual(similarity, best) == similarity >= best

\* the replacement test of lines 577 and 583
Better(similarity, best) == similarity > best

\* process_batch catches the exception of a frame that cannot be processed
FrameFails ==
    /\ pc = "frames"
    /\ frame_pos < Len(frame_paths)
    /\ frame_pos' = frame_pos + 1
    /\ UNCHANGED <<pc, keys, args, cands, local_media_path, frame_paths, still_index,
                   still_max_similarity, still_best_match, scores, still_matches, globalBest,
                   is_match, result, exit_path, exit_code, stdout, fs, broker, history>>

ScoreFrame ==
    /\ pc = "frames"
    /\ frame_pos < Len(frame_paths)
    /\ \E similarity \in Sims :
        LET frame_path == frame_paths[frame_pos + 1] IN
        /\ IF Better(similarity, still_max_similarity)
           THEN /\ still_max_similarity' = similarity
                /\ still_best_match' = frame_path
           ELSE UNCHANGED <<still_max_similarity, still_best_match>>
        /\ IF Better(similarity, max_similarity)
           THEN /\ max_similarity' = similarity
                /\ best_match_frame' = frame_path
                /\ best_match_still' = StillNumber
                /\ best_match_source' = CurrentStill.source
           ELSE UNCHANGED globalBest
        /\ reached' = IF similarity >= early_stop_threshold
                      THEN reached \cup {StillNumber} ELSE reached
        /\ scores' = scores \cup {<<frame_path, similarity>>}
    /\ scoredStills' = scoredStills \cup {StillNumber}
    /\ frame_pos' = frame_pos + 1
    /\ UNCHANGED <<pc, keys, args, cands, local_media_path, frame_paths, still_index,
                   still_matches, is_match, result, exit_path, exit_code, stdout, fs, broker,
                   visited, downloaded, embedded, artifacts, rendered>>

\* ------------------------------------ lines 599-615: the end of one still
\* the break test of line 613
\* >= replaced by >
EarlyStopGreater(similarity, threshold) == similarity > threshold

EarlyStop(similarity, threshold) == similarity >= threshold

\* the rendering error reaches the caller
RenderReturnsIfSaved(fails) == ~fails

\* lines 373 and 416-419: create_comparison_image catches whatever rendering
\* raises and returns None; its callers ignore the returned value
RenderReturns(fails) == TRUE

EndStill ==
    /\ pc = "frames"
    /\ frame_pos = Len(frame_paths)
    /\ scores' = {}
    /\ still_matches' = Append(still_matches, [still_index |-> StillNumber,
                                               max_similarity |-> still_max_similarity,
                                               best_match |-> still_best_match])
    /\ IF still_best_match # 0
       THEN /\ artifacts' = artifacts \cup {StillNumber}
            /\ rendered' = IF StillNumber \in unrenderable
                           THEN rendered ELSE rendered \cup {StillNumber}
       ELSE UNCHANGED <<artifacts, rendered>>
    /\ IF still_best_match # 0 /\ ~RenderReturns(StillNumber \in unrenderable)
       THEN /\ Except
            /\ UNCHANGED still_index
       ELSE /\ UNCHANGED <<result, exit_path>>
            /\ IF EarlyStop(still_max_similarity, early_stop_threshold)
               THEN /\ pc' = "decide"
                    /\ UNCHANGED still_index
               ELSE /\ pc' = "loop"
                    /\ still_index' = still_index + 1
    /\ UNCHANGED <<keys, args, cands, local_media_path, frame_paths, still_max_similarity,
                   still_best_match, frame_pos, globalBest,
                   is_match, exit_code, stdout, fs, broker, visited, downloaded, embedded,
                   scoredStills, reached>>

\* ------------------------------------------- lines 617-627: the decision
\* all() replaced by any()
StrictVerdictAny(matches, threshold) ==
    \E i \in 1..Len(matches) : matches[i].max_similarity >= threshold

StrictVerdict(matches, threshold) ==
    \A i \in 1..Len(matches) : matches[i].max_similarity >= threshold

\* >= replaced by >
LenientVerdictGreater(similarity, threshold) == similarity > threshold

LenientVerdict(similarity, threshold) == similarity >= threshold

Decide ==
    /\ pc = "decide"
    /\ is_match' = IF strict_mode
                   THEN StrictVerdict(still_matches, early_stop_threshold)
                   ELSE LenientVerdict(max_similarity, early_stop_threshold)
    /\ pc' = "report"
    /\ UNCHANGED <<keys, args, cands, local_media_path, frame_paths, still_index, perStill,
                   still_matches, globalBest, result, exit_path, exit_code, stdout, fs, broker,
                   history>>

\* line 645: the verdict line of the report
MatchLine(verdict) == IF verdict THEN "VERIFIED" ELSE "WRONG EPISODE"

\* line 662: the local copy is removed when its path is not the media path,
\* compared as strings
Removes(local, media) == local # media

\* ---------------------- lines 629-675: best-match image, cleanup, return
Finish ==
    /\ pc = "report"
    /\ IF best_match_frame # 0
       THEN /\ artifacts' = artifacts \cup {0}
            /\ rendered' = IF 0 \in unrenderable THEN rendered ELSE rendered \cup {0}
       ELSE UNCHANGED <<artifacts, rendered>>
    /\ IF best_match_frame # 0 /\ ~RenderReturns(0 \in unrenderable)
       THEN /\ Except
            /\ UNCHANGED <<stdout, fs>>
       ELSE /\ stdout' = MatchLine(is_match)
            /\ framesDir' = FALSE
            /\ frameFiles' = {}
            /\ staleFrames' = {}
            /\ localCopy' = IF Removes(local_media_path, media_path) THEN FALSE ELSE localCopy
            /\ staleCopy' = IF Removes(local_media_path, media_path) THEN FALSE ELSE staleCopy
            /\ mediaFile' = IF Removes(local_media_path, media_path) /\ InScratch(media_path)
                            THEN FALSE ELSE mediaFile
            /\ Return(is_match, "decided")
    /\ UNCHANGED <<keys, args, cands, local_media_path, frame_paths, still_index, perStill,
                   still_matches, globalBest, is_match, exit_code, broker, visited,
                   downloaded, embedded, scoredStills, reached>>

\* ------------------------------------------------- lines 732-736: main
\* process_media_file catches every Exception itself (line 677), so the except
\* clause of main (lines 737-740, sys.exit(2)) is never entered by one.
ExitStatusZero(value) == 0

\* line 734: 0 if is_match else 1
ExitStatus(value) == IF value THEN 0 ELSE 1

MainExit ==
    /\ pc = "returned"
    /\ exit_code' = ExitStatus(result)
    /\ pc' = "exited"
    /\ UNCHANGED <<keys, args, cands, local_media_path, frame_paths, still_index, perStill,
                   still_matches, globalBest, is_match, result, exit_path, stdout, fs,
                   broker, history>>

Next ==
    \/ ParseFails \/ VerifyDirRaises \/ Parsed
    \/ GatherForcedMissing \/ GatherForced \/ GatherProviders \/ GatherRaises
    \/ CopyMedia \/ ExtractFails \/ ExtractFrames
    \/ LoadModel \/ LoadModelRaises
    \/ StillsExhausted \/ StillDownloadFails \/ StillOpenFails \/ StillEmbedRaises
    \/ StillEmbedded \/ FrameFails \/ ScoreFrame \/ EndStill
    \/ Decide \/ Finish \/ MainExit

Spec == Init /\ [][Next]_vars

SpecBroker == InitBroker /\ [][Next]_vars

SpecFaults == InitFaults /\ [][Next]_vars

SpecRender == InitRender /\ [][Next]_vars

SpecScratch == InitScratch /\ [][Next]_vars

NextClamp == ClampThreshold

\* ------------------------------------------- lines 75-101: get_tvdb_token
\* the rest of the program, which get_tvdb_token leaves alone
pipeline == <<pc, config, tmdbId, args, cands, local_media_path, frame_paths, still_index,
              perStill, still_matches, globalBest, is_match, result, exit_path, exit_code,
              stdout, fs, broker, history>>

\* time passes between two calls
Tick ==
    /\ clock < MaxClock
    /\ clock' = clock + 1
    /\ UNCHANGED <<tvdb_token_cache, logins, call, racers, pipeline>>

\* line 79-80: SELECT token, timestamp ... LIMIT 1; fetchone
FetchOne(rows) == IF rows = <<>> THEN <<>> ELSE <<rows[1]>>

ValidAtLimit(row, now) == row # <<>> /\ row[1].token # 0 /\ row[1].timestamp # 0
                          /\ now - row[1].timestamp <= TokenLifetimeDays

\* lines 81-83: if row: ... if token and ts and time.time() - ts < 30 * 24 * 3600
Valid(row, now) == row # <<>> /\ row[1].token # 0 /\ row[1].timestamp # 0
                   /\ now - row[1].timestamp < TokenLifetimeDays

StoredAppended(rows, tok, ts) == Append(rows, [token |-> tok, timestamp |-> ts])

\* lines 92-97: DELETE FROM tvdb_token_cache; INSERT (tok, time.time()); commit
Stored(rows, tok, ts) == <<[token |-> tok, timestamp |-> ts]>>

\* lines 83-85: the cached token is returned
CachedToken ==
    /\ Valid(FetchOne(tvdb_token_cache), clock)
    /\ call' = [now |-> clock, row |-> FetchOne(tvdb_token_cache), posted |-> FALSE,
                issued |-> 0, returned |-> FetchOne(tvdb_token_cache)[1].token,
                done |-> clock]
    /\ UNCHANGED <<tvdb_token_cache, clock, logins, racers, pipeline>>

\* lines 86-98: the login answers with a token, which is stored and returned;
\* the request takes no time or one day
FetchToken ==
    /\ ~Valid(FetchOne(tvdb_token_cache), clock)
    /\ logins < MaxLogins
    /\ \E elapsed \in {0, 1} :
        /\ clock + elapsed <= MaxClock
        /\ clock' = clock + elapsed
        /\ logins' = logins + 1
        /\ tvdb_token_cache' = Stored(tvdb_token_cache, logins + 1, clock + elapsed)
        /\ call' = [now |-> clock, row |-> FetchOne(tvdb_token_cache), posted |-> TRUE,
                    issued |-> logins + 1, returned |-> logins + 1, done |-> clock + elapsed]
    /\ UNCHANGED <<racers, pipeline>>

NotStoredCleared(rows) == <<>>

\* lines 91 and 99: the DELETE and INSERT are inside "if tok:" and after the
\* statements that raise, so a failed login executes no statement on the table
NotStored(rows) == rows

\* lines 87-91 and 99-101: the login request raises, answers with an error
\* status or without a token; nothing is stored and None is returned
TokenError ==
    /\ ~Valid(FetchOne(tvdb_token_cache), clock)
    /\ tvdb_token_cache' = NotStored(tvdb_token_cache)
    /\ call' = [now |-> clock, row |-> FetchOne(tvdb_token_cache), posted |-> TRUE,
                issued |-> 0, returned |-> 0, done |-> clock]
    /\ UNCHANGED <<clock, logins, racers, pipeline>>

NextToken == Tick \/ CachedToken \/ FetchToken \/ TokenError

\* --------------- lines 77-101 run by two invocations on the same database
\* Each invocation is a process with its own connection.  A SELECT reads the
\* committed rows; DELETE opens the connection's transaction and takes the
\* write lock, for which it waits while the other invocation holds it; the
\* transaction's rows become the committed rows at commit.
sequential == <<pipeline, call>>

\* lines 79-85: SELECT and the validity test
RaceSelect(p) ==
    /\ procs[p].at = "select"
    /\ procs' = [procs EXCEPT ![p] =
           IF Valid(FetchOne(tvdb_token_cache), clock)
           THEN [@ EXCEPT !.at = "done", !.row = FetchOne(tvdb_token_cache),
                          !.returned = FetchOne(tvdb_token_cache)[1].token]
           ELSE [@ EXCEPT !.at = "login", !.row = FetchOne(tvdb_token_cache)]]
    /\ UNCHANGED <<tvdb_token_cache, clock, logins, writer, sequential>>

\* lines 87-89: the login answers with a new token
RaceLogin(p) ==
    /\ procs[p].at = "login"
    /\ logins < MaxLogins
    /\ logins' = logins + 1
    /\ procs' = [procs EXCEPT ![p] = [@ EXCEPT !.at = "delete", !.tok = logins + 1]]
    /\ UNCHANGED <<tvdb_token_cache, clock, writer, sequential>>

\* lines 87-91, 99-101: the login fails; None is returned
RaceLoginFails(p) ==
    /\ procs[p].at = "login"
    /\ procs' = [procs EXCEPT ![p] = [@ EXCEPT !.at = "done"]]
    /\ UNCHANGED <<tvdb_token_cache, clock, logins, writer, sequential>>

DeletedNone(rows) == rows

\* line 92: DELETE FROM tvdb_token_cache
Deleted(rows) == <<>>

RaceDelete(p) ==
    /\ procs[p].at = "delete"
    /\ writer = 0
    /\ writer' = p
    /\ procs' = [procs EXCEPT ![p] = [@ EXCEPT !.at = "insert",
                                               !.txn = Deleted(tvdb_token_cache)]]
    /\ UNCHANGED <<tvdb_token_cache, clock, logins, sequential>>

\* lines 93-96: INSERT (tok, time.time())
RaceInsert(p) ==
    /\ procs[p].at = "insert"
    /\ procs' = [procs EXCEPT ![p] =
           [@ EXCEPT !.at = "commit",
                     !.txn = Append(@, [token |-> procs[p].tok, timestamp |-> clock])]]
    /\ UNCHANGED <<tvdb_token_cache, clock, logins, writer, sequential>>

\* lines 97-98: commit, and the new token is returned
RaceCommit(p) ==
    /\ procs[p].at = "commit"
    /\ tvdb_token_cache' = procs[p].txn
    /\ writer' = 0
    /\ procs' = [procs EXCEPT ![p] = [@ EXCEPT !.at = "done", !.returned = procs[p].tok]]
    /\ UNCHANGED <<clock, logins, sequential>>

\* time passes while the invocations run
RaceTick ==
    /\ clock < MaxClock
    /\ \E p \in Invocations : procs[p].at # "done"
    /\ clock' = clock + 1
    /\ UNCHANGED <<tvdb_token_cache, logins, racers, sequential>>

NextRace ==
    \/ \E p \in Invocations :
          \/ RaceSelect(p) \/ RaceLogin(p) \/ RaceLoginFails(p)
          \/ RaceDelete(p) \/ RaceInsert(p) \/ RaceCommit(p)
    \/ RaceTick

SpecRace == InitRace /\ [][NextRace]_vars

SpecToken == InitToken /\ [][NextToken]_vars

SpecClamp == InitClamp /\ [][NextClamp]_vars

\* ======================================================================
\* Properties
\* ======================================================================

\* process_media_file has returned
Returned == pc \in {"returned", "exited"}
\* ... through the decision step of lines 617-627
Decided == Returned /\ exit_path = "decided"
\* ... through its except clause
Raised == Returned /\ exit_path = "exception"

\* C1: strict mode is never more permissive than lenient mode: at the
\* decision step of any run (the run up to there does not read the flag), if
\* the strict verdict is 'match' then so is the lenient verdict, also when no
\* still yielded a MatchResult.
C1_StrictImpliesLenient ==
    pc = "decide" =>
        ((\A i \in 1..Len(still_matches) :
              still_matches[i].max_similarity >= early_stop_threshold)
         => max_similarity >= early_stop_threshold)

\* C2: when process_media_file has returned, by any path, the frame
\* directory and the local copy of the video no longer exist.
C2_ScratchCleaned == Returned => (~framesDir /\ ~localCopy)

\* C3: an exception raised in the pipeline ends the process with status 2.
C3_ExceptionExitsTwo == (pc = "exited" /\ exit_path = "exception") => exit_code = 2

\* C4: with the strict flag off, a run that reached the decision step returns
\* 'match' if and only if the GlobalBest similarity is >= the threshold.
C4_LenientDecision ==
    (Decided /\ ~strict_mode) => (result <=> max_similarity >= early_stop_threshold)

C4_Witness ==
    /\ Decided /\ ~strict_mode /\ result
    /\ max_similarity = early_stop_threshold
    /\ best_match_still >= 2

\* C5: with the strict flag on, a run that reached the decision step returns
\* 'match' if and only if every recorded MatchResult has a per-still best
\* similarity >= the threshold.
C5_StrictDecision ==
    (Decided /\ strict_mode) =>
        (result <=> \A i \in 1..Len(still_matches) :
                        still_matches[i].max_similarity >= early_stop_threshold)

C5_Witness ==
    /\ Decided /\ strict_mode /\ ~result
    /\ Len(still_matches) = 2
    /\ still_matches[2].max_similarity >= early_stop_threshold

\* the still number of the last MatchResult, 0 when there is none
LastMatched ==
    IF still_matches = <<>> THEN 0 ELSE still_matches[Len(still_matches)].still_index

\* C6: as soon as a processed still's best similarity is >= the threshold the
\* still loop ends: that still's MatchResult is the last one, and no later
\* candidate is visited, downloaded, embedded, scored or given an artifact.
C6_EarlyStop ==
    \A i \in 1..Len(still_matches) :
        still_matches[i].max_similarity >= early_stop_threshold =>
            /\ pc \notin {"loop", "frames"}
            /\ i = Len(still_matches)
            /\ \A n \in visited \cup downloaded \cup embedded \cup scoredStills \cup artifacts :
                   n <= still_matches[i].still_index

C6_Witness ==
    /\ Decided
    /\ still_matches # <<>>
    /\ still_matches[Len(still_matches)].max_similarity >= early_stop_threshold
    /\ LastMatched < Len(StillsIterated)
    /\ LastMatched >= 2

\* C7: if every processed still's best similarity is below the threshold, the
\* loop has visited every one of the first min(len(candidates), max_stills)
\* candidates, GlobalBest is below the threshold and the lenient verdict is
\* no-match.
C7_NoStopBelowThreshold ==
    (/\ Decided
     /\ \A i \in 1..Len(still_matches) :
            still_matches[i].max_similarity < early_stop_threshold)
    => /\ 1..Min(Len(stills_to_process_list), max_stills) \subseteq visited
       /\ max_similarity < early_stop_threshold
       /\ (~strict_mode => ~result)

\* the first candidate, in list order, with a scored similarity >= threshold
FirstReached == CHOOSE n \in reached : \A m \in reached : n <= m

\* C8: when candidates reach the threshold, the GlobalBest reported at the
\* end of the run is that of the first of them in list order.
C8_FirstReachedWins ==
    (Decided /\ reached # {}) =>
        /\ best_match_still = FirstReached
        /\ best_match_source = stills_to_process_list[FirstReached].source

\* the gathering of lines 450-481 has run
Gathered ==
    \/ pc \in {"copy", "extract", "load", "loop", "frames", "decide", "report"}
    \/ Returned /\ exit_path \in {"force_missing", "no_stills", "no_frames", "decided"}
    \/ Raised /\ local_media_path # "unset"

\* C9: without a forced still the candidate list is provider A's results,
\* then B's, then C's, each in the order returned, and the stills the engine
\* iterates are exactly the first max_stills entries of that list, for every
\* max_stills the command line accepts.
C9_BrokerOrderAndCap ==
    (Gathered /\ force_still_path = "None") =>
        /\ stills_to_process_list =
               [i \in 1..Len(provided.omdb) |-> [file_path |-> provided.omdb[i], source |-> "OMDB"]]
               \o [i \in 1..Len(provided.tvdb) |-> [file_path |-> provided.tvdb[i], source |-> "TVDB"]]
               \o [i \in 1..Len(provided.tmdb) |-> [file_path |-> provided.tmdb[i], source |-> "TMDB"]]
        /\ StillsIterated =
               SubSeq(stills_to_process_list, 1, Min(Len(stills_to_process_list), max_stills))
        /\ visited \subseteq 1..max_stills

\* C10 as stated: whenever a manual still path is supplied, the candidate
\* list is exactly the one forced candidate and no provider lookup is made.
C10_ForcedOnly ==
    (Gathered /\ force_still_path # "None") =>
        /\ stills_to_process_list = <<[file_path |-> force_still_path, source |-> "forced"]>>
        /\ lookups = {}

\* C10 amended: when a manual still path is supplied no provider lookup is
\* made; if the file exists the candidate list is exactly the one forced
\* candidate, and if it does not the run returns no-match with no candidate.
C10_ForcedOnlyIfExists ==
    (Gathered /\ force_still_path # "None") =>
        /\ lookups = {}
        /\ provided = [omdb |-> <<>>, tvdb |-> <<>>, tmdb |-> <<>>]
        /\ IF exit_path = "force_missing"
           THEN stills_to_process_list = <<>> /\ ~result
           ELSE stills_to_process_list =
                    <<[file_path |-> force_still_path, source |-> "forced"]>>

C10_Witness ==
    /\ Decided
    /\ force_still_path # "None"
    /\ OMDB_API_KEY /\ TVDB_API_KEY
    /\ Len(still_matches) = 1
    /\ lookups = {}

\* C11: for a supplied threshold t below the default the effective threshold
\* is the smallest multiple of 0.01 strictly greater than t, capped at the
\* default; for t >= default it is t.  Hence it is > t when t < default and
\* never above max(t, default).
C11_Clamping ==
    clamped =>
        /\ supplied < 10 * EARLY_STOP_THRESHOLD =>
               /\ early_stop = Min(10 * ((supplied \div 10) + 1), 10 * EARLY_STOP_THRESHOLD)
               /\ early_stop > supplied
        /\ supplied >= 10 * EARLY_STOP_THRESHOLD => early_stop = supplied
        /\ early_stop <= Max(supplied, 10 * EARLY_STOP_THRESHOLD)

\* C12: the exit status encodes the verdict: a run exits 0 exactly when it
\* decided 'match', and then the report says VERIFIED; it exits 1 when it
\* decided no-match (the report says WRONG EPISODE) and when it was
\* unverifiable (parse failure, no references, no frames).
C12_ExitStatus ==
    pc = "exited" =>
        /\ exit_code = 0 <=> (exit_path = "decided" /\ is_match)
        /\ exit_code = 0 => stdout = "VERIFIED"
        /\ (exit_path = "decided" /\ ~is_match) => (exit_code = 1 /\ stdout = "WRONG EPISODE")
        /\ exit_path \in {"parse", "force_missing", "no_stills", "no_frames"} => exit_code = 1

C12_Witness ==
    /\ pc = "exited"
    /\ exit_code = 0
    /\ stdout = "VERIFIED"
    /\ Len(still_matches) > 0
    /\ max_similarity >= early_stop_threshold

\* C13: without a forced still, when every provider function returned no
\* still the run ends with verdict no-match and exit status 1, through the
\* return of line 479 and not through the except clause, and no video copy,
\* frame extraction or model load has taken place.
C13_NoReferences ==
    (/\ force_still_path = "None"
     /\ lookups # {}
     /\ provided.omdb = <<>> /\ provided.tvdb = <<>> /\ provided.tmdb = <<>>) =>
        /\ pc \in {"returned", "exited"}
        /\ exit_path = "no_stills"
        /\ result = FALSE
        /\ pc = "exited" => exit_code = 1
        /\ local_media_path = "unset"
        /\ ~localCopy /\ ~framesDir
        /\ frame_paths = <<>>

C13_Witness ==
    /\ pc = "exited"
    /\ exit_path = "no_stills"
    /\ OMDB_API_KEY /\ TVDB_API_KEY
    /\ lookups = {"omdb_images", "tvdb_images", "tmdb_images"}

\* C14: a provider whose request fails adds no candidate and does not end
\* the run: the other providers are still queried and the candidate list is
\* the concatenation of their results, the failed provider counting as
\* having returned nothing.
C14_ProviderFailureNotFatal ==
    (force_still_path = "None" /\ failed # {}) =>
        /\ ~(Raised /\ local_media_path = "unset")
        /\ "tmdb_images" \in lookups
        /\ OMDB_API_KEY => "omdb_images" \in lookups
        /\ stills_to_process_list =
               [i \in 1..Len(IF "omdb" \in failed THEN <<>> ELSE provided.omdb) |->
                    [file_path |-> provided.omdb[i], source |-> "OMDB"]]
               \o [i \in 1..Len(IF "tvdb" \in failed THEN <<>> ELSE provided.tvdb) |->
                    [file_path |-> provided.tvdb[i], source |-> "TVDB"]]
               \o [i \in 1..Len(IF "tmdb" \in failed THEN <<>> ELSE provided.tmdb) |->
                    [file_path |-> provided.tmdb[i], source |-> "TMDB"]]

\* C15: while gathering, no request is sent to provider A when its key is
\* absent, and none (login, series search or still lookup) to provider B
\* when its key is absent.
C15_AbsentKeySkipped ==
    /\ ~OMDB_API_KEY => "omdb_images" \notin lookups
    /\ ~TVDB_API_KEY => lookups \cap {"tvdb_login", "tvdb_search", "tvdb_images"} = {}

\* C16: when neither name search of provider C finds the show the internal
\* id is used and provider C contributes no still to the candidate list of
\* that run, whatever it answers.
C16_SentinelNoStills ==
    (lookups # {} /\ tmdb_search = "none") =>
        /\ tmdbId = 12345
        /\ provided.tmdb = <<>>
        /\ \A i \in 1..Len(stills_to_process_list) :
               stills_to_process_list[i].source # "TMDB"

\* C17: get_tvdb_token returns the cached token without a login request if
\* and only if a cached pair exists whose age is less than 30 days;
\* otherwise it posts a login, and when that yields a token the cached pair
\* becomes that token with the time of storing and the token is returned.
C17_TokenWindow ==
    call.now > 0 =>
        LET hit == call.row # <<>> /\ call.now - call.row[1].timestamp < 30
        IN  /\ hit <=> ~call.posted
            /\ hit => call.returned = call.row[1].token
            /\ ~hit => call.returned = call.issued
            /\ (~hit /\ call.issued # 0) =>
                   /\ Len(tvdb_token_cache) > 0
                   /\ tvdb_token_cache[1] = [token |-> call.issued, timestamp |-> call.done]
                   /\ call.row # <<>> => call.issued # call.row[1].token

\* a hit on the last day of the window, after a refresh at its end earlier
C17_Witness ==
    /\ ~call.posted
    /\ call.row # <<>>
    /\ call.now - call.row[1].timestamp = 29
    /\ call.returned = 2

\* C18: the token table holds at most one pair after any sequence of calls
\* (hits, expiries, successful and failed logins), and after a successful
\* refresh exactly the pair written by it.
C18_StoreOverwritten ==
    /\ Len(tvdb_token_cache) <= 1
    /\ (call.posted /\ call.issued # 0) =>
           tvdb_token_cache = <<[token |-> call.issued, timestamp |-> call.done]>>

\* a second refresh, after the pair of the first one expired
C18_Witness ==
    /\ call.posted
    /\ call.issued = 2
    /\ call.row # <<>>
    /\ call.row[1].token = 1
    /\ Len(tvdb_token_cache) = 1

\* C19: a still whose download or decode fails gets no MatchResult and no
\* artifact, and the run goes on to the next candidate instead of ending in
\* the except clause; a frame that cannot be decoded gets no score and the
\* loop stays on the frames of that still.
C19_StillSkipped ==
    \A n \in visited \ embedded :
        /\ \A i \in 1..Len(still_matches) : still_matches[i].still_index # n
        /\ n \notin artifacts
        /\ ~(Raised /\ still_index + 1 = n)

C19_FrameSkipped ==
    (pc = "frames" /\ frame_pos' = frame_pos + 1 /\ UNCHANGED <<still_max_similarity, still_best_match, globalBest>>)
        => (pc' = "frames" /\ exit_path' = "running")

C19_UnreadableSkipped == []C19_StillSkipped /\ [][C19_FrameSkipped]_vars

\* C20: a failing comparison-image render changes neither the MatchResult
\* list, nor GlobalBest, nor the verdict: the step that ends a still and the
\* step that reports produce the same list, best match, continuation and
\* returned value whether or not their render fails.
C20_EndStillSame ==
    (pc = "frames" /\ frame_pos = Len(frame_paths)) =>
        /\ still_matches' = Append(still_matches, [still_index |-> still_index + 1,
                                                  max_similarity |-> still_max_similarity,
                                                  best_match |-> still_best_match])
        /\ UNCHANGED <<max_similarity, best_match_frame, best_match_still, best_match_source>>
        /\ exit_path' = "running"
        /\ pc' = IF still_max_similarity >= early_stop_threshold THEN "decide" ELSE "loop"

C20_FinishSame ==
    pc = "report" =>
        /\ UNCHANGED <<still_matches, max_similarity, best_match_frame, best_match_still,
                       best_match_source, is_match>>
        /\ result' = is_match
        /\ exit_path' = "decided"

C20_RenderNoEffect == [][C20_EndStillSame /\ C20_FinishSame]_vars

\* a verified run in which the renders of still 1 and of the best match failed
C20_Witness ==
    /\ pc = "exited"
    /\ exit_code = 0
    /\ {0, 1} \subseteq artifacts
    /\ rendered \cap {0, 1} = {}


\* C21: during the scoring phase the similarity of GlobalBest never
\* decreases, and GlobalBest (similarity, frame, still number, source) is
\* replaced only by a strictly greater similarity, so that a tie keeps the
\* frame and still found earlier.
C21_Step ==
    pc \in {"loop", "frames"} =>
        /\ max_similarity' >= max_similarity
        /\ <<max_similarity, best_match_frame, best_match_still, best_match_source>>'
             # <<max_similarity, best_match_frame, best_match_still, best_match_source>>
           => max_similarity' > max_similarity

C21_GlobalBestMonotone == [][C21_Step]_vars

\* the second still has tied with the best of the first one, which is kept
C21_Witness ==
    /\ pc = "frames"
    /\ still_index = 1
    /\ best_match_still = 1
    /\ max_similarity = 50
    /\ still_max_similarity = 50


\* C22: every still that has a MatchResult has its comparison image
\* written, and every run that reached the decision step and returned has
\* the best-of-run image written.
C22_AuditTrail ==
    /\ \A i \in 1..Len(still_matches) : still_matches[i].still_index \in rendered
    /\ Decided => 0 \in rendered


\* C23: while a still is scored its best is the maximum of the similarities
\* of the frames scored so far, held with the earliest frame attaining it,
\* for every similarity in [-1, 1]; and a MatchResult is appended only after
\* every extracted frame was handled, recording that best.
C23_StillBest ==
    (pc = "frames" /\ scores # {}) =>
        /\ \E e \in scores : e[2] = still_max_similarity
        /\ \A e \in scores : e[2] <= still_max_similarity
        /\ <<still_best_match, still_max_similarity>> \in scores
        /\ \A e \in scores : e[2] = still_max_similarity => still_best_match <= e[1]

C23_AllFrames ==
    Len(still_matches') > Len(still_matches) =>
        /\ frame_pos = Len(frame_paths)
        /\ still_matches'[Len(still_matches')].max_similarity = still_max_similarity
        /\ still_matches'[Len(still_matches')].best_match = still_best_match

C23_TrueMaximum == []C23_StillBest /\ [][C23_AllFrames]_vars


\* C24: when two invocations both find the cached token expired or missing
\* and both refresh it, then in every interleaving of their steps the table
\* ends with exactly one pair, the one written by one of the two, and each
\* invocation returns the token of its own login.
C24_ConcurrentRefresh ==
    (\A p \in Invocations : procs[p].at = "done" /\ procs[p].tok # 0) =>
        /\ Len(tvdb_token_cache) = 1
        /\ \E p \in Invocations :
               /\ tvdb_token_cache[1].token = procs[p].tok
               /\ Len(procs[p].txn) = 1
               /\ tvdb_token_cache[1] = procs[p].txn[1]
        /\ \A p \in Invocations : procs[p].returned = procs[p].tok

\* both refreshed an expired pair and the second login's pair was committed
\* first
C24_Witness ==
    /\ \A p \in Invocations : procs[p].at = "done" /\ procs[p].row # <<>>
    /\ procs[1].tok = 3 /\ procs[2].tok = 2
    /\ tvdb_token_cache[1].token = 2


\* C25: whenever a run returns 'match', in either mode, for every threshold
\* the command line can produce and every --max-stills value, a best
\* matching frame and still are recorded and a scored similarity of that
\* still is >= the effective threshold.
C25_MatchHasEvidence ==
    (Returned /\ result) =>
        /\ best_match_frame # 0
        /\ best_match_still # 0
        /\ best_match_still \in reached
        /\ max_similarity >= early_stop_threshold


\* C26: in strict mode the verdict depends only on the first still that
\* yields a MatchResult: it is 'match' exactly when that still's best is >=
\* the threshold, and the MatchResult list then has length 1; when the first
\* still is below the threshold the verdict is no-match whatever the later
\* stills score.
C26_StrictFirstStill ==
    (Decided /\ strict_mode) =>
        /\ result <=> (still_matches # <<>>
                       /\ still_matches[1].max_similarity >= early_stop_threshold)
        /\ result => Len(still_matches) = 1


\* C27: the input video is never deleted: for every spelling of the media
\* path, also one that names the file of the local copy, and on the fallback
\* after a failed copy, the file at the media path exists when the run has
\* returned.
C27_InputKept == Returned => mediaFile


\* ------------------------------------------------------------------ C28
\* lines 698-740 run once per invocation; TEMP_DIR (line 51) outlives them.
\* A later invocation whose video has the same sanitized name (lines 441-447)
\* starts with new locals and the scratch files the earlier one left behind.
InitRuns ==
    /\ Fresh
    /\ OMDB_API_KEY = TRUE
    /\ TVDB_API_KEY = TRUE
    /\ tvdbId = TRUE
    /\ unreachable = {}
    /\ tvdb_token = "cached"
    /\ tmdb_search = "primary"
    /\ unrenderable = {}
    /\ max_stills = 20
    /\ strict_mode = FALSE
    /\ early_stop_threshold = EARLY_STOP_THRESHOLD
    /\ supplied = 10 * EARLY_STOP_THRESHOLD
    /\ early_stop = Clamp(supplied)
    /\ clamped = TRUE
    /\ force_still_path \in ForceArgs

\* the next invocation: every local starts over, the files stay, and what is
\* in the scratch directory now was written by an earlier invocation
NewRun ==
    /\ pc = "exited"
    /\ pc' = "start"
    /\ stills_to_process_list' = <<>>
    /\ stills_to_process' = 0
    /\ local_media_path' = "unset"
    /\ frame_paths' = <<>>
    /\ still_index' = 0
    /\ frame_pos' = 0
    /\ scores' = {}
    /\ still_max_similarity' = 0
    /\ still_best_match' = 0
    /\ still_matches' = <<>>
    /\ max_similarity' = 0
    /\ best_match_frame' = 0
    /\ best_match_still' = 0
    /\ best_match_source' = "None"
    /\ is_match' = FALSE
    /\ result' = FALSE
    /\ exit_path' = "running"
    /\ exit_code' = -1
    /\ stdout' = "none"
    /\ lookups' = {}
    /\ provided' = [omdb |-> <<>>, tvdb |-> <<>>, tmdb |-> <<>>]
    /\ failed' = {}
    /\ tmdbId' = 0
    /\ visited' = {}
    /\ downloaded' = {}
    /\ embedded' = {}
    /\ scoredStills' = {}
    /\ reached' = {}
    /\ artifacts' = {}
    /\ rendered' = {}
    /\ staleCopy' = localCopy
    /\ staleFrames' = frameFiles
    /\ UNCHANGED <<config, tokens, racers, args, localCopy, mediaFile, framesDir, frameFiles>>

NextRuns == Next \/ NewRun

SpecRuns == InitRuns /\ [][NextRuns]_vars

\* C28: runs are isolated from earlier runs' scratch state: every frame scored
\* in a run was extracted in that run from the video named on that run's
\* command line, never from a leftover local copy and never a leftover frame
C28_RunsIsolated == \A s \in scores : s[1] \notin staleFrames


\* C29: a failed authentication leaves the token cache unchanged: when the
\* login request raises, answers with an HTTP error or without a token,
\* get_tvdb_token returns no token and the stored pair, an expired one
\* included, is exactly what it was before the call.
C29_FailedLoginKeepsCache ==
    /\ (call.posted /\ call.issued = 0) =>
           /\ call.returned = 0
           /\ tvdb_token_cache = call.row
    /\ [][(call'.posted /\ call'.issued = 0 /\ call' # call) =>
              tvdb_token_cache' = tvdb_token_cache]_vars

\* a login failed while an expired pair was stored, and the pair is still there
C29_Witness ==
    /\ call.posted
    /\ call.issued = 0
    /\ call.returned = 0
    /\ call.row # <<>>
    /\ call.now - call.row[1].timestamp >= TokenLifetimeDays
    /\ tvdb_token_cache = call.row

====
